---- MODULE Spec2Model ----
(***************************************************************************)
(* Model of src/main.js: the startup sequence (initialize, then listen or  *)
(* exit), the POST /chat handler with its two await points, the GET        *)
(* /health handler, and the helpers findRelevantExamples / preparePrompt.  *)
(*                                                                         *)
(* Strings are sequences of one-character strings; a fixed literal of the  *)
(* source is one element holding the whole literal.                        *)
(***************************************************************************)
EXTENDS Integers, Sequences, FiniteSets, TLC

VARIABLES
    cvDataset,      \* let cvDataset   (main.js:30)
    vectorStore,    \* let vectorStore (main.js:31)
    isInitialized,  \* let isInitialized = false (main.js:32)
    flagWrites,     \* how many times the assignment of main.js:48 ran
    initPc,         \* where initialize() is: readFile, fromTexts, resolved, rejected
    server,         \* starting, listening (app.listen ran), exited (process.exit ran)
    req,            \* the /chat requests in flight, one record per slot
    health,         \* the last GET /health exchange, as the client saw it
    call            \* a direct call of findRelevantExamples / preparePrompt

vars == <<cvDataset, vectorStore, isInitialized, flagWrites, initPc, server,
          req, health, call>>

globals == <<cvDataset, vectorStore, isInitialized>>

----------------------------------------------------------------------------
(* Bounds *)

MaxCorpus == 1      \* records in cv_dataset.json, whole program
MaxHist == 2        \* turns in a supplied conversationHistory
FnMaxCorpus == 4    \* records in the Corpus, direct calls of the helpers
MaxK == 3           \* largest numExamples passed in a direct call

\* The /chat requests the server handles at the same time.
Reqs == {"r1", "r2"}
FirstReq == "r1"

NumExamples == 3    \* numExamples = 3 (main.js:56)

\* A variable or property holding undefined.
Undefined == [kind |-> "undefined", items |-> <<>>, docs |-> <<>>]
\* A request body without conversationHistory.
Omitted == [given |-> FALSE, turns |-> <<>>]
\* JSON that parses to a value without .map (an object, a number, ...).
NotArray == [kind |-> "notArray", items |-> <<>>]
\* Text JSON.parse throws on.
Malformed == [kind |-> "malformed", items |-> <<>>]

Messages == {<<"H", "i">>, <<"Y", "o">>}
Whitespace == {" ", "\n", "\t"}
Contents == {<<" ", "o", " ", "k", "\n">>}

Min(a, b) == IF a < b THEN a ELSE b

----------------------------------------------------------------------------
(* The dataset file and the Corpus *)

Record(i) ==
    [question |-> <<"q", ToString(i)>>, answer |-> <<"a", ToString(i)>>]

\* A JSON array of n records, parsed.
Corpus(n) == [kind |-> "array", items |-> [i \in 1..n |-> Record(i)]]

\* What fs.readFile can resolve to.
FileContents(maxN) == {Malformed, NotArray} \cup {Corpus(n) : n \in 0..maxN}

\* cvDataset.map(...) of main.js:43-44 throws unless cvDataset is an array.
IsArray(v) == v.kind = "array"

\* FaissStore.fromTexts(texts, metadatas, embeddings): one document per
\* record, text "question answer", metadata {id: i} with i 0-based.
BuildStore(corpus) ==
    [kind |-> "store",
     docs |-> [i \in 1..Len(corpus.items) |->
        [pageContent |-> corpus.items[i].question \o <<" ">> \o corpus.items[i].answer,
         metadata |-> [id |-> i - 1]]]]

----------------------------------------------------------------------------
(* findRelevantExamples *)

Injective(f) == \A i, j \in DOMAIN f : f[i] = f[j] => i = j

\* The provider's answers to similaritySearch(question, k): a rejection, or
\* at most k of the stored documents, no document twice, in any order.
SearchOutcomes(store, k) ==
    LET n == Len(store.docs)
        ranks == {s \in UNION {[1..m -> 1..n] : m \in 0..Min(k, n)} : Injective(s)}
    IN  {[asked |-> TRUE, ok |-> FALSE, results |-> <<>>]}
        \cup {[asked |-> TRUE, ok |-> TRUE,
               results |-> [i \in DOMAIN s |-> store.docs[s[i]]]] : s \in ranks}

\* No similaritySearch was issued.
NoSearch == [asked |-> FALSE, ok |-> FALSE, results |-> <<>>]

\* if (!isInitialized || !vectorStore)
IndexNotReady == ~isInitialized \/ vectorStore = Undefined

\* cvDataset[result.metadata.id]
NoRecord == [undefined |-> TRUE]

Deref(id) ==
    IF IsArray(cvDataset) /\ id + 1 \in DOMAIN cvDataset.items
    THEN cvDataset.items[id + 1] ELSE NoRecord

FindResultNoCatch(outcome) ==
    IF outcome.ok
    THEN [threw |-> FALSE,
          value |-> [i \in DOMAIN outcome.results |-> Deref(outcome.results[i].metadata.id)]]
    ELSE [threw |-> TRUE, value |-> <<>>]

\* The try/catch around the search: what findRelevantExamples returns once
\* the similaritySearch promise has settled with `outcome`.
FindResult(outcome) ==
    IF outcome.ok
    THEN [threw |-> FALSE,
          value |-> [i \in DOMAIN outcome.results |-> Deref(outcome.results[i].metadata.id)]]
    ELSE [threw |-> FALSE, value |-> <<>>]

----------------------------------------------------------------------------
(* preparePrompt *)

Preamble == <<"Relevant information from Mathieu Vialatte's CV:\n\n">>
Disclaimer == <<"No relevant examples could be found. Please answer to the best of your ability with general information about Mathieu Vialatte.\n\n">>

Block(example) ==
    <<"Q: ">> \o example.question \o <<"\nA: ">> \o example.answer \o <<"\n\n">>

RECURSIVE Context(_)
Context(examples) ==
    IF examples = <<>> THEN <<>>
    ELSE Block(Head(examples)) \o Context(Tail(examples))

Suffix(question) == <<"Question: ">> \o question \o <<"\nAnswer:">>

\* example.question on an undefined example is a TypeError.
ComposeThrows(ready, examples) ==
    ready /\ \E i \in DOMAIN examples : examples[i] = NoRecord

PromptTextNoFallback(question, ready, examples) ==
    Preamble \o (IF ready THEN Context(examples) ELSE <<>>) \o Suffix(question)

PromptText(question, ready, examples) ==
    Preamble
    \o (IF ready THEN Context(examples) ELSE Disclaimer)
    \o Suffix(question)

----------------------------------------------------------------------------
(* The POST /chat handler *)

SystemTurn ==
    [role |-> "system",
     content |-> <<"You are a virtual assistant specialized in answering questions about Mathieu Vialatte's CV. ...">>]

Turn(role, content) == [role |-> role, content |-> content]

\* The histories a client sends: the first n turns of a conversation.
ClientTurn(i) ==
    IF i % 2 = 1 THEN Turn("user", <<"u", ToString(i)>>)
    ELSE Turn("assistant", <<"a", ToString(i)>>)

Histories ==
    {[given |-> TRUE, turns |-> [i \in 1..n |-> ClientTurn(i)]] : n \in 0..MaxHist}

\* const { message, conversationHistory = [] } = req.body
DefaultHistory(h) == IF h.given THEN h.turns ELSE <<>>

FullConversationPromptFirst(history, prompt) ==
    <<SystemTurn>> \o <<Turn("user", prompt)>> \o history

\* [ system, ...conversationHistory, { role: "user", content: prompt } ]
FullConversation(history, prompt) ==
    <<SystemTurn>> \o history \o <<Turn("user", prompt)>>

\* What openai.chat.completions.create can settle with.
Completions ==
    {[kind |-> k, content |-> <<>>] : k \in {"reject", "noChoices", "nullContent"}}
    \cup {[kind |-> "ok", content |-> c] : c \in Contents}

NoCompletion == [kind |-> "none", content |-> <<>>]

RECURSIVE TrimStart(_)
TrimStart(s) ==
    IF s # <<>> /\ Head(s) \in Whitespace THEN TrimStart(Tail(s)) ELSE s

RECURSIVE TrimEnd(_)
TrimEnd(s) ==
    IF s # <<>> /\ s[Len(s)] \in Whitespace
    THEN TrimEnd(SubSeq(s, 1, Len(s) - 1)) ELSE s

\* String.prototype.trim
Trim(s) == TrimEnd(TrimStart(s))

ExtractLenient(c) ==
    IF c.kind \in {"ok", "nullContent"}
    THEN [threw |-> FALSE, value |-> Trim(c.content)]
    ELSE [threw |-> TRUE, value |-> <<>>]

\* await create(...) and response.choices[0].message.content.trim(): the
\* value, or the exception that reaches the handler's catch.
Extract(c) ==
    IF c.kind = "ok"
    THEN [threw |-> FALSE, value |-> Trim(c.content)]
    ELSE [threw |-> TRUE, value |-> <<>>]

PushTurnsPrompt(history, message, prompt, aiResponse) ==
    history \o <<Turn("user", prompt), Turn("assistant", aiResponse)>>

\* conversationHistory.push(user turn); conversationHistory.push(assistant turn)
PushTurns(history, message, prompt, aiResponse) ==
    history \o <<Turn("user", message), Turn("assistant", aiResponse)>>

ErrorBody ==
    [response |-> <<"Sorry, an error occurred while processing your request.">>]

NoRes == [status |-> 0, body |-> [none |-> TRUE]]

IdleReq ==
    [st |-> "idle", message |-> <<>>, supplied |-> Omitted,
     conversationHistory |-> <<>>, search |-> NoSearch, prompt |-> <<>>,
     fullConversation |-> <<>>, completion |-> NoCompletion, res |-> NoRes]

SharedHistory(r) == req[FirstReq].conversationHistory

\* The conversationHistory binding of the request being handled.
HistoryAt(r) == req[r].conversationHistory

\* The catch of the handler: res.status(500).json(...)
Failed(rec) ==
    [rec EXCEPT !.st = "done", !.res = [status |-> 500, body |-> ErrorBody]]

\* From the composed prompt to the call of create(...).
Submit(rec, history, prompt) ==
    [rec EXCEPT !.st = "completion", !.prompt = prompt,
                !.fullConversation = FullConversation(history, prompt)]

\* The handler up to its first await: the body is destructured and
\* preparePrompt runs until it awaits similaritySearch (or, without a query,
\* until the handler awaits create).
ChatReceive(r, m, h) ==
    /\ server = "listening"
    /\ req[r].st = "idle"
    /\ LET rec == [IdleReq EXCEPT !.message = m, !.supplied = h,
                                  !.conversationHistory = DefaultHistory(h)]
       IN  req' = [req EXCEPT ![r] =
               IF isInitialized /\ ~IndexNotReady
               THEN [rec EXCEPT !.st = "search"]
               ELSE Submit(rec, DefaultHistory(h), PromptText(m, isInitialized, <<>>))]
    /\ UNCHANGED <<cvDataset, vectorStore, isInitialized, flagWrites, initPc,
                   server, health, call>>

\* similaritySearch settles: findRelevantExamples returns, preparePrompt
\* finishes, fullConversation is built and create(...) is called.
SearchReturn(r, o) ==
    /\ req[r].st = "search"
    /\ vectorStore # Undefined
    /\ o \in SearchOutcomes(vectorStore, NumExamples)
    /\ LET found == FindResult(o)
           rec == [req[r] EXCEPT !.search = o]
       IN  req' = [req EXCEPT ![r] =
               IF found.threw \/ ComposeThrows(TRUE, found.value)
               THEN Failed(rec)
               ELSE Submit(rec, HistoryAt(r), PromptText(rec.message, TRUE, found.value))]
    /\ UNCHANGED <<cvDataset, vectorStore, isInitialized, flagWrites, initPc,
                   server, health, call>>

\* create(...) settles: the text is extracted, the two turns are pushed and
\* the 200 response is sent, or the catch sends the 500 response.
CompletionReturn(r, c) ==
    /\ req[r].st = "completion"
    /\ c \in Completions
    /\ LET x == Extract(c)
           rec == [req[r] EXCEPT !.completion = c]
           pushed == PushTurns(HistoryAt(r), rec.message, rec.prompt, x.value)
       IN  req' = [req EXCEPT ![r] =
               IF x.threw THEN Failed(rec)
               ELSE [rec EXCEPT
                       !.st = "done",
                       !.conversationHistory = pushed,
                       !.res = [status |-> 200,
                                body |-> [response |-> x.value,
                                          conversationHistory |-> pushed]]]]
    /\ UNCHANGED <<cvDataset, vectorStore, isInitialized, flagWrites, initPc,
                   server, health, call>>

\* The response has gone out; the request and its objects are dropped.
Deliver(r) ==
    /\ req[r].st = "done"
    /\ req' = [req EXCEPT ![r] = IdleReq]
    /\ UNCHANGED <<cvDataset, vectorStore, isInitialized, flagWrites, initPc,
                   server, health, call>>

----------------------------------------------------------------------------
(* Startup: initialize().then(listen).catch(exit) *)

ReadFileResolvedSetsFlag(data) ==
    /\ initPc = "readFile"
    /\ data \in FileContents(MaxCorpus)
    /\ cvDataset' = IF data = Malformed THEN cvDataset ELSE data
    /\ initPc' = IF IsArray(data) THEN "fromTexts" ELSE "rejected"
    /\ isInitialized' = IsArray(data)
    /\ flagWrites' = IF IsArray(data) THEN flagWrites + 1 ELSE flagWrites
    /\ UNCHANGED <<vectorStore, server, req, health, call>>

\* readFile resolves: JSON.parse, the assignment of cvDataset, the two
\* cvDataset.map calls and the call of FaissStore.fromTexts.
ReadFileResolved(data) ==
    /\ initPc = "readFile"
    /\ data \in FileContents(MaxCorpus)
    /\ cvDataset' = IF data = Malformed THEN cvDataset ELSE data
    /\ initPc' = IF IsArray(data) THEN "fromTexts" ELSE "rejected"
    /\ UNCHANGED <<vectorStore, isInitialized, flagWrites, server, req, health, call>>

\* readFile rejects: the catch rethrows.
ReadFileRejected ==
    /\ initPc = "readFile"
    /\ initPc' = "rejected"
    /\ UNCHANGED <<cvDataset, vectorStore, isInitialized, flagWrites, server,
                   req, health, call>>

\* fromTexts resolves: vectorStore is assigned, then isInitialized = true.
FromTextsResolved ==
    /\ initPc = "fromTexts"
    /\ vectorStore' = BuildStore(cvDataset)
    /\ isInitialized' = TRUE
    /\ flagWrites' = flagWrites + 1
    /\ initPc' = "resolved"
    /\ UNCHANGED <<cvDataset, server, req, health, call>>

\* fromTexts rejects: the catch rethrows.
FromTextsRejected ==
    /\ initPc = "fromTexts"
    /\ initPc' = "rejected"
    /\ UNCHANGED <<cvDataset, vectorStore, isInitialized, flagWrites, server,
                   req, health, call>>

CanListenAtLoad == TRUE

\* app.listen is called in the then-callback of initialize().
CanListen == initPc = "resolved"

Listen ==
    /\ CanListen
    /\ server = "starting"
    /\ server' = "listening"
    /\ UNCHANGED <<cvDataset, vectorStore, isInitialized, flagWrites, initPc,
                   req, health, call>>

\* The catch-callback: process.exit(1).
Exit ==
    /\ initPc = "rejected"
    /\ server # "exited"
    /\ server' = "exited"
    /\ UNCHANGED <<cvDataset, vectorStore, isInitialized, flagWrites, initPc,
                   req, health, call>>

----------------------------------------------------------------------------
(* GET /health *)

NoHealth ==
    [outcome |-> "none", flagAtRequest |-> FALSE, status |-> 0,
     body |-> [none |-> TRUE]]

HealthBodyNotReady == [status |-> "ok", initialized |-> FALSE]

\* res.json({ status: 'ok', initialized: isInitialized })
HealthBody == [status |-> "ok", initialized |-> isInitialized]

\* A client's GET /health that reaches the handler.
HealthHandled ==
    /\ server = "listening"
    /\ health' = [outcome |-> "answered", flagAtRequest |-> isInitialized,
                  status |-> 200, body |-> HealthBody]
    /\ UNCHANGED <<cvDataset, vectorStore, isInitialized, flagWrites, initPc,
                   server, req, call>>

\* A client's GET /health while nothing listens on the port: the connection
\* is refused and no handler runs.
HealthRefused ==
    /\ server # "listening"
    /\ health' = [outcome |-> "refused", flagAtRequest |-> isInitialized,
                  status |-> 0, body |-> [none |-> TRUE]]
    /\ UNCHANGED <<cvDataset, vectorStore, isInitialized, flagWrites, initPc,
                   server, req, call>>

----------------------------------------------------------------------------
(* findRelevantExamples and preparePrompt, called directly *)

NoRet == [threw |-> FALSE, examples |-> <<>>, prompt |-> <<>>]

IdleCall ==
    [fn |-> "none", st |-> "idle", question |-> <<>>, k |-> 0,
     search |-> NoSearch, ret |-> NoRet]

Returned(c, ret) == [c EXCEPT !.st = "returned", !.ret = ret]

\* findRelevantExamples(question, k) up to its return or its await.
CallFind(q, k) ==
    /\ call.st = "idle"
    /\ LET c == [IdleCall EXCEPT !.fn = "findRelevantExamples", !.question = q, !.k = k]
       IN  call' = IF IndexNotReady
                   THEN Returned(c, NoRet)
                   ELSE [c EXCEPT !.st = "search"]
    /\ UNCHANGED <<cvDataset, vectorStore, isInitialized, flagWrites, initPc,
                   server, req, health>>

\* preparePrompt(question) up to its return or the await inside
\* findRelevantExamples(question), which it calls with the default k.
CallPrepare(q) ==
    /\ call.st = "idle"
    /\ LET c == [IdleCall EXCEPT !.fn = "preparePrompt", !.question = q,
                                 !.k = NumExamples]
       IN  call' = IF isInitialized /\ ~IndexNotReady
                   THEN [c EXCEPT !.st = "search"]
                   ELSE Returned(c, [NoRet EXCEPT
                            !.prompt = PromptText(q, isInitialized, <<>>)])
    /\ UNCHANGED <<cvDataset, vectorStore, isInitialized, flagWrites, initPc,
                   server, req, health>>

\* similaritySearch settles and the called function returns (or throws).
CallSearchReturn(o) ==
    /\ call.st = "search"
    /\ o \in SearchOutcomes(vectorStore, call.k)
    /\ LET found == FindResult(o)
           c == [call EXCEPT !.search = o]
       IN  call' =
             IF found.threw
             THEN Returned(c, [NoRet EXCEPT !.threw = TRUE])
             ELSE IF call.fn = "findRelevantExamples"
             THEN Returned(c, [NoRet EXCEPT !.examples = found.value])
             ELSE IF ComposeThrows(TRUE, found.value)
             THEN Returned(c, [NoRet EXCEPT !.threw = TRUE])
             ELSE Returned(c, [NoRet EXCEPT
                      !.examples = found.value,
                      !.prompt = PromptText(call.question, TRUE, found.value)])
    /\ UNCHANGED <<cvDataset, vectorStore, isInitialized, flagWrites, initPc,
                   server, req, health>>

CallDone ==
    /\ call.st = "returned"
    /\ call' = IdleCall
    /\ UNCHANGED <<cvDataset, vectorStore, isInitialized, flagWrites, initPc,
                   server, req, health>>

\* The values the three globals hold together at some point of a run of the
\* program whose dataset has at most maxN records, with where initialize()
\* is then.
GlobalStates(maxN) ==
    {[cvDataset |-> Undefined, vectorStore |-> Undefined, isInitialized |-> FALSE,
      initPc |-> pc] : pc \in {"readFile", "rejected"}}
    \cup {[cvDataset |-> NotArray, vectorStore |-> Undefined, isInitialized |-> FALSE,
           initPc |-> "rejected"]}
    \cup {[cvDataset |-> Corpus(n), vectorStore |-> Undefined, isInitialized |-> FALSE,
           initPc |-> pc] : n \in 0..maxN, pc \in {"fromTexts", "rejected"}}
    \cup {[cvDataset |-> Corpus(n), vectorStore |-> BuildStore(Corpus(n)),
           isInitialized |-> TRUE, initPc |-> "resolved"] : n \in 0..maxN}

FnInit ==
    /\ \E g \in GlobalStates(FnMaxCorpus) :
          /\ cvDataset = g.cvDataset
          /\ vectorStore = g.vectorStore
          /\ isInitialized = g.isInitialized
          /\ initPc = g.initPc
          /\ flagWrites = IF g.isInitialized THEN 1 ELSE 0
    /\ server = "starting"
    /\ req = [r \in Reqs |-> IdleReq]
    /\ health = NoHealth
    /\ call = IdleCall

FnNext ==
    \/ \E q \in Messages, k \in 1..MaxK : CallFind(q, k)
    \/ \E q \in Messages : CallPrepare(q)
    \/ \E o \in SearchOutcomes(vectorStore, call.k) : CallSearchReturn(o)
    \/ CallDone

SpecFn == FnInit /\ [][FnNext]_vars

----------------------------------------------------------------------------
(* The whole program *)

Init ==
    /\ cvDataset = Undefined
    /\ vectorStore = Undefined
    /\ isInitialized = FALSE
    /\ flagWrites = 0
    /\ initPc = "readFile"
    /\ server = "starting"
    /\ req = [r \in Reqs |-> IdleReq]
    /\ health = NoHealth
    /\ call = IdleCall

Next ==
    \/ \E data \in FileContents(MaxCorpus) : ReadFileResolved(data)
    \/ ReadFileRejected
    \/ FromTextsResolved
    \/ FromTextsRejected
    \/ Listen
    \/ Exit
    \/ \E r \in Reqs, m \in Messages, h \in {Omitted} \cup Histories : ChatReceive(r, m, h)
    \/ \E r \in Reqs : \E o \in SearchOutcomes(vectorStore, NumExamples) : SearchReturn(r, o)
    \/ \E r \in Reqs, c \in Completions : CompletionReturn(r, c)
    \/ \E r \in Reqs : Deliver(r)
    \/ HealthHandled
    \/ HealthRefused

Spec == Init /\ [][Next]_vars

----------------------------------------------------------------------------
(* Properties *)

SuppliedTurns(r) == DefaultHistory(req[r].supplied)

Contains(seq, x) == \E i \in DOMAIN seq : seq[i] = x

\* t is s without its leading and trailing whitespace.
IsTrimOf(t, s) ==
    /\ t # <<>> => t[1] \notin Whitespace /\ t[Len(t)] \notin Whitespace
    /\ \E a \in 0..Len(s) : \E b \in a..Len(s) :
          /\ t = SubSeq(s, a + 1, b)
          /\ \A i \in (1..a) \cup ((b + 1)..Len(s)) : s[i] \in Whitespace

CompletionFailed(r) ==
    req[r].completion.kind \in {"reject", "noChoices", "nullContent"}

\* C1: when the completion call of a /chat request succeeds, the response is
\* 200, its response text is the trimmed completion text, and its
\* conversationHistory is the supplied history (empty if omitted), unchanged,
\* followed by the user turn with the raw message and the assistant turn
\* with that response text.
C1_HistoryAppendOnly ==
    \A r \in Reqs :
        (req[r].st = "done" /\ req[r].completion.kind = "ok") =>
            /\ req[r].res.status = 200
            /\ IsTrimOf(req[r].res.body.response, req[r].completion.content)
            /\ req[r].res.body.conversationHistory =
                  SuppliedTurns(r)
                  \o <<[role |-> "user", content |-> req[r].message],
                       [role |-> "assistant", content |-> req[r].res.body.response]>>

C1_Witness ==
    \E r \in Reqs :
        /\ req[r].st = "done"
        /\ req[r].completion.kind = "ok"
        /\ Len(SuppliedTurns(r)) >= 2
        /\ req[r].res.body.response # <<>>
        /\ req[r].res.body.response # req[r].completion.content
        /\ req[r].prompt # req[r].message

\* C2: when the completion call fails (it rejects, or its response has no
\* choices[0], or no message content), the response is 500 with only the
\* fixed error message, the server still listens, and the request's
\* conversationHistory holds the supplied turns and nothing more, as it does
\* at every earlier point of the handling.
C2_FailureLeavesHistory ==
    \A r \in Reqs :
        /\ req[r].st \in {"search", "completion"} =>
              req[r].conversationHistory = SuppliedTurns(r)
        /\ (req[r].st = "done" /\ CompletionFailed(r)) =>
              /\ req[r].res.status = 500
              /\ DOMAIN req[r].res.body = {"response"}
              /\ req[r].res.body.response =
                    <<"Sorry, an error occurred while processing your request.">>
              /\ req[r].conversationHistory = SuppliedTurns(r)
              /\ server = "listening"

C2_Witness ==
    \E r \in Reqs :
        /\ req[r].st = "done"
        /\ req[r].completion.kind = "nullContent"
        /\ Len(SuppliedTurns(r)) >= 1
        /\ req[r].res.status = 500

\* C3: the server listens, and a /chat or /health request is handled, only
\* after initialize() resolved, with the Corpus loaded, the Index built and
\* the flag set; once initialize() rejected the server never listens and
\* process.exit is the step left to it, and the process exits only then.
C3_ListenAfterInit ==
    /\ server = "listening" =>
          /\ initPc = "resolved"
          /\ isInitialized
          /\ IsArray(cvDataset)
          /\ vectorStore.kind = "store"
    /\ initPc = "rejected" => server \in {"starting", "exited"}
    /\ initPc = "rejected" => server = "exited" \/ ENABLED Exit
    /\ server = "exited" => initPc = "rejected"
    /\ (\E r \in Reqs : req[r].st # "idle") => initPc = "resolved"
    /\ health.outcome = "answered" => initPc = "resolved"

C3_Witness ==
    /\ server = "listening"
    /\ health.outcome = "answered"
    /\ \E r \in Reqs : req[r].st = "done"

\* C4: the flag is true only if the Corpus is loaded and the Index is built
\* from it; the flag is written at most once, only from false to true, and
\* once it is true neither it, the Corpus nor the Index changes again.
C4_FlagOnce ==
    /\ [](/\ isInitialized => IsArray(cvDataset) /\ vectorStore = BuildStore(cvDataset)
          /\ flagWrites <= 1
          /\ isInitialized <=> flagWrites = 1)
    /\ [][/\ isInitialized' # isInitialized => ~isInitialized /\ isInitialized'
          /\ isInitialized => UNCHANGED globals]_vars

C4_Witness ==
    /\ isInitialized
    /\ flagWrites = 1
    /\ Len(cvDataset.items) >= 1
    /\ \E r \in Reqs : req[r].st = "done" /\ req[r].search.asked

\* C5: a direct call of findRelevantExamples(question, k) never throws; it
\* returns the empty sequence, without a query, when the flag is false or
\* vectorStore is unset, and the empty sequence when the query rejects;
\* otherwise it returns one Corpus record per match, at most k, in the order
\* of the matches, each the record at the match's stored metadata id.
C5_FindNeverThrows ==
    (call.fn = "findRelevantExamples" /\ call.st = "returned") =>
        /\ ~call.ret.threw
        /\ (~isInitialized \/ vectorStore.kind # "store") =>
              ~call.search.asked /\ call.ret.examples = <<>>
        /\ (call.search.asked /\ ~call.search.ok) => call.ret.examples = <<>>
        /\ (call.search.asked /\ call.search.ok) =>
              /\ Len(call.ret.examples) <= call.k
              /\ Len(call.ret.examples) = Len(call.search.results)
              /\ \A i \in DOMAIN call.ret.examples :
                    LET doc == call.search.results[i]
                        ex == call.ret.examples[i]
                    IN  /\ doc.metadata.id + 1 \in DOMAIN cvDataset.items
                        /\ ex = cvDataset.items[doc.metadata.id + 1]
                        /\ doc.pageContent = ex.question \o <<" ">> \o ex.answer

C5_Witness ==
    /\ call.fn = "findRelevantExamples"
    /\ call.st = "returned"
    /\ call.search.ok
    /\ call.k = NumExamples
    /\ Len(cvDataset.items) > NumExamples
    /\ Len(call.ret.examples) = NumExamples
    /\ call.ret.examples[1] = cvDataset.items[3]
    /\ call.ret.examples[2] = cvDataset.items[1]

\* C6: when the similarity query of a request fails after a successful
\* startup, the request goes on to the completion call and its composed
\* prompt carries the 'No relevant examples could be found' disclaimer.
C6_SearchFailureFallback ==
    \A r \in Reqs :
        (req[r].search.asked /\ ~req[r].search.ok) =>
            /\ req[r].st = "completion" \/ req[r].completion.kind # "none"
            /\ Contains(req[r].prompt, Disclaimer[1])

\* C7: a prompt composed by preparePrompt while the flag is false holds the
\* fallback disclaimer and no retrieved 'Q: ... A: ...' block; composing it
\* issues no similarity query and throws nothing.
C7_NotReadyFallback ==
    (call.fn = "preparePrompt" /\ call.st = "returned" /\ ~isInitialized) =>
        /\ ~call.ret.threw
        /\ ~call.search.asked
        /\ Contains(call.ret.prompt, Disclaimer[1])
        /\ ~Contains(call.ret.prompt, "Q: ")
        /\ ~Contains(call.ret.prompt, "\nA: ")
        /\ Len(call.ret.prompt) = Len(call.question) + 4

C7_Witness ==
    /\ call.fn = "preparePrompt"
    /\ call.st = "returned"
    /\ ~isInitialized
    /\ IsArray(cvDataset)
    /\ Len(cvDataset.items) >= 1

\* C8 as stated: every GET /health a client makes, before or after startup
\* completes, is answered 200 with status 'ok' and initialized equal to the
\* flag at the time of the request.
C8_HealthAlwaysAnswered ==
    health.outcome # "none" =>
        /\ health.outcome = "answered"
        /\ health.status = 200
        /\ health.body = [status |-> "ok", initialized |-> health.flagAtRequest]

\* C8, amended: a GET /health that is handled is answered 200 with status
\* 'ok' and initialized equal to the flag at the time of the request, which
\* is then true; a GET /health made while the flag is false is not answered.
C8_HealthWhenListening ==
    /\ health.outcome = "answered" =>
          /\ health.status = 200
          /\ health.body = [status |-> "ok", initialized |-> health.flagAtRequest]
          /\ health.body.initialized
    /\ (health.outcome # "none" /\ ~health.flagAtRequest) =>
          health.outcome = "refused" /\ health.status = 0

C8_Witness ==
    /\ health.outcome = "answered"
    /\ health.body.initialized
    /\ health.status = 200

\* C9: the messages submitted to the completion provider are the system
\* turn, then the supplied history turn by turn, then one user turn holding
\* the composed prompt (preamble, context of the retrieved records,
\* 'Question: {message}\nAnswer:'), which is not the raw message:
\* len(history) + 2 turns.
C9_SubmittedSequence ==
    \A r \in Reqs :
        (req[r].st = "completion" \/ req[r].completion.kind # "none") =>
            LET fc == req[r].fullConversation
                sup == SuppliedTurns(r)
                last == fc[Len(fc)]
                found == [i \in DOMAIN req[r].search.results |->
                            cvDataset.items[req[r].search.results[i].metadata.id + 1]]
            IN  /\ Len(fc) = Len(sup) + 2
                /\ fc[1] = SystemTurn
                /\ \A i \in DOMAIN sup : fc[i + 1] = sup[i]
                /\ last.role = "user"
                /\ last.content = req[r].prompt
                /\ last.content # req[r].message
                /\ req[r].prompt =
                      Preamble \o Context(found)
                      \o <<"Question: ">> \o req[r].message \o <<"\nAnswer:">>

C9_Witness ==
    \E r \in Reqs :
        /\ req[r].st = "completion"
        /\ Len(SuppliedTurns(r)) >= 2
        /\ req[r].search.ok
        /\ Len(req[r].search.results) >= 1

\* What the handler sends for a request handled with no other request in
\* flight: message m, supplied history h, search outcome o, completion c.
AloneResult(m, h, o, c) ==
    LET prompt == PromptText(m, TRUE, FindResult(o).value)
        x == Extract(c)
    IN  IF x.threw THEN [status |-> 500, body |-> ErrorBody]
        ELSE [status |-> 200,
              body |-> [response |-> x.value,
                        conversationHistory |->
                            PushTurns(DefaultHistory(h), m, prompt, x.value)]]

\* C10: however the steps of concurrent /chat requests interleave, each
\* request submits and answers what it would have handled alone with the
\* same provider results; a step of one request changes no other request's
\* record and none of cvDataset, vectorStore, isInitialized.
C10_RequestsIndependent ==
    /\ [](\A r \in Reqs :
            /\ req[r].st \in {"completion", "done"} =>
                  req[r].fullConversation =
                      FullConversation(SuppliedTurns(r),
                          PromptText(req[r].message, TRUE, FindResult(req[r].search).value))
            /\ req[r].st = "done" =>
                  req[r].res = AloneResult(req[r].message, req[r].supplied,
                                           req[r].search, req[r].completion))
    /\ [][\A r \in Reqs :
            req'[r] # req[r] =>
                /\ UNCHANGED globals
                /\ \A q \in Reqs \ {r} : req'[q] = req[q]]_vars

C10_Witness ==
    /\ req["r1"].st = "done"
    /\ req["r1"].res.status = 200
    /\ req["r2"].st = "completion"
    /\ req["r1"].message # req["r2"].message
    /\ Len(DefaultHistory(req["r1"].supplied)) = 2
    /\ Len(DefaultHistory(req["r2"].supplied)) = 1

====
